---- MODULE Spec2Model ----
(***************************************************************************)
(* The GDP dashboard of src/app.py as a state machine.                     *)
(*                                                                         *)
(* One Streamlit process serves the script.  Every user interaction        *)
(* re-runs the script top to bottom for one session: load_data (behind     *)
(* st.cache_data), the sidebar form, the filters_applied gate with the     *)
(* initial snapshot view and st.stop(), then filtering, the growth         *)
(* computation and the tabs.                                               *)
(*                                                                         *)
(* A table (pandas DataFrame) is [columns, rows]; a row is [idx, cells],   *)
(* idx being the pandas index label and cells a function from the column   *)
(* names to the values.  Float values (the GDP Growth % column) are pairs   *)
(* <<n, d>>: a reduced fraction when d > 0, +inf = <<1, 0>>,                *)
(* -inf = <<-1, 0>>, NaN = <<0, 0>>.  NaN is pandas' missing value of a     *)
(* float column.  Rounding of finite floats is abstracted to exact          *)
(* rationals; the IEEE special values are kept.                              *)
(***************************************************************************)
EXTENDS Integers, Sequences, FiniteSets, TLC

VARIABLES
    file,                \* content of gdp.csv on disk
    cache,               \* st.cache_data entry of load_data: <<>> or <<table>>
    reads,               \* how many times pd.read_csv("gdp.csv") ran
    session_state,       \* the sessions whose st.session_state has filters_applied
    pc,                  \* position of the current script run
    session,             \* the session the current script run belongs to
    submit_button,       \* line 60
    year_range,          \* line 51, <<lo, hi>>
    selected_countries,  \* line 54
    df,                  \* line 45
    filtered_df,         \* lines 86 and 98
    growth_df,           \* line 151
    top_growth,          \* line 196
    view                 \* what the run has rendered: "none", "snapshot", "dashboard"

vars == <<file, cache, reads, session_state, pc, session, submit_button,
          year_range, selected_countries, df, filtered_df, growth_df,
          top_growth, view>>

----------------------------------------------------------------------------
(* Bounds and data domains                                                  *)

MaxRows == 3
MaxAppRows == 2
MaxLoadRows == 2
MaxReads == 2

Sessions == {"s1", "s2"}

\* Country names in Python string order (the order sort_values uses).
CountryNames == <<"China", "India">>
Years == {2000, 2001, 2002}
GDPValues == {0, 100, 110}

Range(s) == {s[i] : i \in DOMAIN s}

Max(S) == CHOOSE x \in S : \A y \in S : y <= x
Min(S) == CHOOSE x \in S : \A y \in S : x <= y

\* Sequences over S of length lo..hi.
SeqsOf(S, lo, hi) == UNION {[1..n -> S] : n \in lo..hi}

----------------------------------------------------------------------------
(* Floats                                                                   *)

NaN == <<0, 0>>
Inf == <<1, 0>>
NegInf == <<-1, 0>>

Abs(n) == IF n < 0 THEN -n ELSE n
Sign(n) == IF n > 0 THEN 1 ELSE IF n < 0 THEN -1 ELSE 0

RECURSIVE Gcd(_, _)
Gcd(a, b) == IF b = 0 THEN a ELSE Gcd(b, a % b)

\* The float n/d for integers n, d: IEEE division, d = 0 included.
Frac(n, d) ==
    IF d = 0 THEN <<Sign(n), 0>>
    ELSE LET g == Gcd(Abs(n), Abs(d))
         IN  <<(Sign(d) * n) \div g, Abs(d) \div g>>

FromInt(n) == <<n, 1>>
IsNaN(x) == x = NaN
IsFinite(x) == x[2] > 0
IsInfinite(x) == x = Inf \/ x = NegInf

FDiv(x, y) ==
    IF IsNaN(x) \/ IsNaN(y) THEN NaN
    ELSE IF IsInfinite(x) /\ IsInfinite(y) THEN NaN
    ELSE IF IsInfinite(x) THEN <<x[1] * (IF y[1] < 0 THEN -1 ELSE 1), 0>>
    ELSE IF IsInfinite(y) THEN FromInt(0)
    ELSE Frac(x[1] * y[2], x[2] * y[1])

FSub(x, y) ==
    IF IsNaN(x) \/ IsNaN(y) THEN NaN
    ELSE IF IsInfinite(x) /\ IsInfinite(y) THEN (IF x = y THEN NaN ELSE x)
    ELSE IF IsInfinite(x) THEN x
    ELSE IF IsInfinite(y) THEN <<-y[1], 0>>
    ELSE Frac(x[1] * y[2] - y[1] * x[2], x[2] * y[2])

FMul(x, y) ==
    IF IsNaN(x) \/ IsNaN(y) THEN NaN
    ELSE IF IsInfinite(x) \/ IsInfinite(y) THEN <<Sign(x[1]) * Sign(y[1]), 0>>
    ELSE Frac(x[1] * y[1], x[2] * y[2])

\* x < y on non-NaN floats.
FLess(x, y) ==
    IF IsInfinite(x) \/ IsInfinite(y)
    THEN x # y /\ (x = NegInf \/ y = Inf)
    ELSE x[1] * y[2] < y[1] * x[2]

----------------------------------------------------------------------------
(* Tables                                                                   *)

NoTable == [columns |-> <<>>, rows |-> <<>>]
NullRegion == "NaN"

HasColumn(d, c) == c \in Range(d.columns)
Cell(r, c) == r.cells[c]

\* df[name] = values: an existing column is overwritten in place, a new one is
\* appended as the last column.  values[i] belongs to the i-th row.
SetColumn(d, name, values) ==
    [columns |-> IF HasColumn(d, name) THEN d.columns ELSE Append(d.columns, name),
     rows    |-> [i \in DOMAIN d.rows |->
                    [idx   |-> d.rows[i].idx,
                     cells |-> [c \in Range(d.columns) \cup {name} |->
                                  IF c = name THEN values[i] ELSE d.rows[i].cells[c]]]]]

\* df.rename(columns={old: new})
Rename(d, old, new) ==
    LET to(c) == IF c = old THEN new ELSE c
        from(c) == IF c = new /\ ~ HasColumn(d, new) THEN old ELSE c
    IN  [columns |-> [i \in DOMAIN d.columns |-> to(d.columns[i])],
         rows    |-> [i \in DOMAIN d.rows |->
                        [idx   |-> d.rows[i].idx,
                         cells |-> [c \in {to(x) : x \in Range(d.columns)} |->
                                      d.rows[i].cells[from(c)]]]]]

\* d[mask] for a boolean mask over the row positions: the rows whose mask is
\* true, in order, with their index labels.
Select(d, mask) ==
    LET kept == {i \in DOMAIN d.rows : mask[i]}
    IN  [columns |-> d.columns,
         rows    |-> [k \in 1..Cardinality(kept) |->
                        d.rows[CHOOSE i \in kept :
                                  Cardinality({j \in kept : j <= i}) = k]]]

----------------------------------------------------------------------------
(* load_data, lines 26-43                                                   *)

\* pd.read_csv: the file's header and records, with a fresh RangeIndex.
read_csv(f) ==
    [columns |-> f.columns,
     rows    |-> [i \in DOMAIN f.records |-> [idx |-> i - 1, cells |-> f.records[i]]]]

region_map ==
    << <<"Asia",          <<"CN", "IN", "JP", "ID", "KR", "SG", "SA">> >>,
       <<"Europe",        <<"DE", "FR", "GB", "IT", "RU", "ES">> >>,
       <<"North America", <<"US", "CA", "MX">> >>,
       <<"South America", <<"BR", "AR", "CO">> >>,
       <<"Africa",        <<"ZA", "NG", "EG", "KE">> >>,
       <<"Oceania",       <<"AU", "NZ">> >> >>

\* The dict comprehension of line 41: a code listed twice keeps the region
\* assigned last.
reverse_region ==
    LET codes == UNION {Range(region_map[i][2]) : i \in DOMAIN region_map}
    IN  [code \in codes |->
            region_map[Max({i \in DOMAIN region_map :
                                code \in Range(region_map[i][2])})][1]]

\* Mutant: a default region for the codes the dict lacks.
MapRegion_default(code) ==
    IF code \in DOMAIN reverse_region THEN reverse_region[code] ELSE "Other"

\* Series.map(dict): a key the dict lacks maps to NaN.
MapRegion(code) ==
    IF code \in DOMAIN reverse_region THEN reverse_region[code] ELSE NullRegion

\* Mutant: the rename matches the lower-case name too.
RenameValue_anycase(d) ==
    IF HasColumn(d, "Value") THEN Rename(d, "Value", "GDP")
    ELSE IF HasColumn(d, "value") THEN Rename(d, "value", "GDP")
    ELSE d

RenameValue(d) ==
    IF HasColumn(d, "Value") THEN Rename(d, "Value", "GDP") ELSE d

AddRegion(d) ==
    IF HasColumn(d, "Country Code")
    THEN SetColumn(d, "Region",
                   [i \in DOMAIN d.rows |-> MapRegion(Cell(d.rows[i], "Country Code"))])
    ELSE d

\* The body of load_data.
load_data_body(f) == AddRegion(RenameValue(read_csv(f)))

----------------------------------------------------------------------------
(* Filtering, lines 86-90                                                   *)

\* Mutant: the lower year bound exclusive.
FilterRows_exclusive(d, yr, selected) ==
    Select(d, [i \in DOMAIN d.rows |->
                  /\ Cell(d.rows[i], "Year") > yr[1]
                  /\ Cell(d.rows[i], "Year") <= yr[2]
                  /\ Cell(d.rows[i], "Country Name") \in selected])

\* df[(Year >= lo) & (Year <= hi) & Country Name.isin(selected)]
FilterRows(d, yr, selected) ==
    Select(d, [i \in DOMAIN d.rows |->
                  /\ Cell(d.rows[i], "Year") >= yr[1]
                  /\ Cell(d.rows[i], "Year") <= yr[2]
                  /\ Cell(d.rows[i], "Country Name") \in selected])

----------------------------------------------------------------------------
(* calculate_gdp_growth, lines 93-96                                        *)

CountryRank(name) == CHOOSE i \in DOMAIN CountryNames : CountryNames[i] = name

\* Row a sorts strictly before row b by (Country Name, Year).
KeyLess(a, b) ==
    \/ CountryRank(Cell(a, "Country Name")) < CountryRank(Cell(b, "Country Name"))
    \/ /\ Cell(a, "Country Name") = Cell(b, "Country Name")
       /\ Cell(a, "Year") < Cell(b, "Year")

\* Row a sorts strictly before row b by GDP Growth %, descending.
GrowthGreater(a, b) == FLess(Cell(b, "GDP Growth %"), Cell(a, "GDP Growth %"))

\* The order of sort_values(by=...): by the keys of line 94, or by
\* GDP Growth % descending (line 196).
RowLess(by, a, b) == IF by = "GDP Growth %" THEN GrowthGreater(a, b) ELSE KeyLess(a, b)

\* Insert r after every row that does not sort after it (stable).
RECURSIVE InsertSorted(_, _, _)
InsertSorted(rows, r, by) ==
    IF rows = <<>> THEN <<r>>
    ELSE IF RowLess(by, r, Head(rows)) THEN <<r>> \o rows
    ELSE <<Head(rows)>> \o InsertSorted(Tail(rows), r, by)

RECURSIVE SortRows(_, _)
SortRows(rows, by) ==
    IF rows = <<>> THEN <<>>
    ELSE InsertSorted(SortRows(SubSeq(rows, 1, Len(rows) - 1), by),
                      rows[Len(rows)], by)

\* Mutant: no sort, the rows stay in the caller's order.
sort_values_none(d) == d

\* df.sort_values(by=["Country Name", "Year"]): a new table, stably sorted
\* (a multi-key sort_values is a lexsort); index labels travel with the rows.
sort_values(d) == [columns |-> d.columns, rows |-> SortRows(d.rows, "Country Name, Year")]

\* Mutant: pct_change without the groupby, against the previous row.
PrevInGroup_ungrouped(rows, i) == i - 1

\* groupby("Country Name"): the position of the previous row of row i's group,
\* 0 when row i is the first of its group.
PrevInGroup(rows, i) ==
    LET before == {j \in 1..(i - 1) :
                      Cell(rows[j], "Country Name") = Cell(rows[i], "Country Name")}
    IN  IF before = {} THEN 0 ELSE Max(before)

\* Mutant: a guard that nulls the growth after a zero GDP.
pct_change_guarded(rows) ==
    [i \in DOMAIN rows |->
        LET j == PrevInGroup(rows, i)
        IN  IF j = 0 \/ Cell(rows[j], "GDP") = 0 THEN NaN
            ELSE FSub(FDiv(FromInt(Cell(rows[i], "GDP")), FromInt(Cell(rows[j], "GDP"))),
                      FromInt(1))]

\* SeriesGroupBy.pct_change(): data / data.shift(1) - 1 within each group; the
\* shift leaves NaN in the first row of a group.
pct_change(rows) ==
    [i \in DOMAIN rows |->
        LET j       == PrevInGroup(rows, i)
            shifted == IF j = 0 THEN NaN ELSE FromInt(Cell(rows[j], "GDP"))
        IN  FSub(FDiv(FromInt(Cell(rows[i], "GDP")), shifted), FromInt(1))]

\* Mutant: sorted in place, so the new column lands on the caller's table.
calculate_gdp_growth_inplace(d) ==
    LET df_sorted == sort_values(d)
        growth    == pct_change(df_sorted.rows)
        result    == SetColumn(df_sorted, "GDP Growth %",
                               [i \in DOMAIN df_sorted.rows |->
                                   FMul(growth[i], FromInt(100))])
    IN  [arg |-> result, ret |-> result]

\* A call calculate_gdp_growth(d).  ret is the table returned; arg is the
\* caller's table d after the call: sort_values returns a new object, so the
\* column assignment of line 95 lands on df_sorted alone.
calculate_gdp_growth(d) ==
    LET df_sorted == sort_values(d)
        growth    == pct_change(df_sorted.rows)
    IN  [arg |-> d,
         ret |-> SetColumn(df_sorted, "GDP Growth %",
                           [i \in DOMAIN df_sorted.rows |->
                               FMul(growth[i], FromInt(100))])]

----------------------------------------------------------------------------
(* The growth views, lines 151 and 194-196                                  *)

\* d.dropna(subset=["GDP Growth %"])
dropna(d) == Select(d, [i \in DOMAIN d.rows |-> ~ IsNaN(Cell(d.rows[i], "GDP Growth %"))])

HeadN == 10

\* d.head(HeadN)
head(d) ==
    [columns |-> d.columns,
     rows    |-> SubSeq(d.rows, 1, IF Len(d.rows) < HeadN THEN Len(d.rows) ELSE HeadN)]

\* growth[growth["Year"] == hi].dropna(subset=["GDP Growth %"])
\*     .sort_values(by="GDP Growth %", ascending=False).head(10)
TopGrowth(growth, hi) ==
    LET latest == dropna(Select(growth, [i \in DOMAIN growth.rows |->
                                               Cell(growth.rows[i], "Year") = hi]))
    IN  head([columns |-> latest.columns,
              rows    |-> SortRows(latest.rows, "GDP Growth %")])

----------------------------------------------------------------------------
(* The files gdp.csv may be                                                 *)

FileColumns(valcol, withCode) ==
    IF withCode THEN <<"Country Name", "Country Code", "Year", valcol>>
    ELSE <<"Country Name", "Year", valcol>>

FileRecord(valcol, withCode, name, code, year, gdp) ==
    LET base == ("Country Name" :> name) @@ ("Year" :> year) @@ (valcol :> gdp)
    IN  IF withCode THEN base @@ ("Country Code" :> code) ELSE base

\* The records with the given header and cell values.
RecordsOf(valcol, withCode, names, codes, years, gdps) ==
    {FileRecord(valcol, withCode, n, c, y, g) :
        n \in names, c \in (IF withCode THEN codes ELSE {"-"}), y \in years, g \in gdps}

\* Every file of lo..hi of the given records under one header.
FilesOver(valcol, withCode, records, lo, hi) ==
    {[columns |-> FileColumns(valcol, withCode), records |-> recs] :
        recs \in SeqsOf(records, lo, hi)}

\* The dashboard's files have the dataset's own header (a Value column) and
\* hold rows of one dataset, in any order and number: one GDP per country and
\* year.
DatasetGDP(name, year) == IF name = CountryNames[1] THEN 110 ELSE 100
AppFiles ==
    FilesOver("Value", FALSE,
              UNION {RecordsOf("Value", FALSE, {n}, {"-"}, {y}, {DatasetGDP(n, y)}) :
                        n \in Range(CountryNames), y \in Years},
              1, MaxAppRows)

\* The inputs of the growth computation: any GDP in any row, the rows in any
\* order, one row at most per country and year (the dataset's shape).
OneRowPerYear(f) ==
    \A i, j \in DOMAIN f.records :
        /\ f.records[i]["Country Name"] = f.records[j]["Country Name"]
        /\ f.records[i]["Year"] = f.records[j]["Year"]
        => i = j
GrowthFiles ==
    {f \in FilesOver("Value", FALSE,
                     RecordsOf("Value", FALSE, Range(CountryNames), {"-"}, Years, GDPValues),
                     1, MaxRows) : OneRowPerYear(f)}

\* Headers with and without Value, GDP and Country Code; codes of the mapping
\* and codes outside it.
FileCodes == {"CN", "US", "NZ", "CHN"}
LoadFiles ==
    UNION {FilesOver(v, w, RecordsOf(v, w, {CountryNames[1]}, FileCodes,
                                     {Min(Years)}, {100, 110}), 1, MaxLoadRows) :
              v \in {"Value", "GDP", "value"}, w \in BOOLEAN}

\* The contents the file takes while the process runs.
CacheFiles ==
    UNION {FilesOver(v, w, RecordsOf(v, w, {CountryNames[1]}, {"CN", "CHN"},
                                     {Min(Years)}, {100, 110}), 1, 1) :
              v \in {"Value", "GDP"}, w \in BOOLEAN}

----------------------------------------------------------------------------
(* The script run                                                           *)

Ended == {"idle", "stopped", "done", "failed"}

\* Mutant: no cache decorator, every call reads the file.
load_data_uncached(f, c, n) ==
    [ret |-> load_data_body(f), cache |-> <<load_data_body(f)>>, reads |-> n + 1]

\* load_data() behind @st.cache_data (line 26), as a call on the cache entry c
\* and the read count n: the body runs only when there is no entry, and every
\* call returns a copy of the entry.
load_data(f, c, n) ==
    IF c = <<>>
    THEN [ret |-> load_data_body(f), cache |-> <<load_data_body(f)>>, reads |-> n + 1]
    ELSE [ret |-> c[1], cache |-> c, reads |-> n]

\* The years the slider of line 51 offers, and the countries of line 53.
SliderYears(d) ==
    LET years == {Cell(d.rows[i], "Year") : i \in DOMAIN d.rows}
    IN  Min(years)..Max(years)
CountryOptions(d) == {Cell(d.rows[i], "Country Name") : i \in DOMAIN d.rows}

\* Mutant: the gate looks at the button alone.
ShowsInitialView_button(state, s, submitted) == ~ submitted

\* Line 63.
ShowsInitialView(state, s, submitted) == s \notin state /\ ~ submitted

\* Lines 45-60: a script run of session s starts; the form delivers the
\* widget values and whether Apply Filters was pressed.
StartRun(s, submitted) ==
    /\ pc \in Ended
    /\ LET call == load_data(file, cache, reads)
       IN  /\ call.reads <= MaxReads
           /\ cache' = call.cache
           /\ reads' = call.reads
           /\ df' = call.ret
           /\ \E lo \in SliderYears(call.ret), hi \in SliderYears(call.ret),
                 sel \in SUBSET CountryOptions(call.ret) :
                 /\ lo <= hi
                 /\ year_range' = <<lo, hi>>
                 /\ selected_countries' = sel
    /\ session' = s
    /\ submit_button' = submitted
    /\ filtered_df' = NoTable
    /\ growth_df' = NoTable
    /\ top_growth' = NoTable
    /\ view' = "none"
    /\ pc' = "gate"
    /\ UNCHANGED <<file, session_state>>

\* Lines 63-83: the initial snapshot view, then st.stop().  The charts read
\* the GDP column and raise without it.
InitialView ==
    /\ pc = "gate"
    /\ ShowsInitialView(session_state, session, submit_button)
    /\ IF HasColumn(df, "GDP")
       THEN view' = "snapshot" /\ pc' = "stopped"
       ELSE view' = view /\ pc' = "failed"
    /\ UNCHANGED <<file, cache, reads, session_state, session, submit_button,
                   year_range, selected_countries, df, filtered_df, growth_df,
                   top_growth>>

\* Line 85.
SetFiltersApplied ==
    /\ pc = "gate"
    /\ ~ ShowsInitialView(session_state, session, submit_button)
    /\ session_state' = session_state \cup {session}
    /\ pc' = "filter"
    /\ UNCHANGED <<file, cache, reads, session, submit_button, year_range,
                   selected_countries, df, filtered_df, growth_df, top_growth, view>>

\* Lines 86-90.
Filter ==
    /\ pc = "filter"
    /\ filtered_df' = FilterRows(df, year_range, selected_countries)
    /\ pc' = "growth"
    /\ UNCHANGED <<file, cache, reads, session_state, session, submit_button,
                   year_range, selected_countries, df, growth_df, top_growth, view>>

\* Line 98; groupby(...)["GDP"] raises without a GDP column.
Growth ==
    /\ pc = "growth"
    /\ IF HasColumn(filtered_df, "GDP")
       THEN /\ filtered_df' = calculate_gdp_growth(filtered_df).ret
            /\ pc' = "tabs"
       ELSE /\ filtered_df' = filtered_df
            /\ pc' = "failed"
    /\ UNCHANGED <<file, cache, reads, session_state, session, submit_button,
                   year_range, selected_countries, df, growth_df, top_growth, view>>

\* Lines 100-199: the dashboard; tab4 drops the rows without growth (line
\* 151), tab9 calls calculate_gdp_growth on the base table (lines 194-196).
Tabs ==
    /\ pc = "tabs"
    /\ growth_df' = dropna(filtered_df)
    /\ LET call == calculate_gdp_growth(df)
       IN  /\ df' = call.arg
           /\ top_growth' = TopGrowth(call.ret, year_range[2])
    /\ view' = "dashboard"
    /\ pc' = "done"
    /\ UNCHANGED <<file, cache, reads, session_state, session, submit_button,
                   year_range, selected_countries, filtered_df>>

\* gdp.csv is rewritten on disk while the process runs.
ChangeFile ==
    /\ \E f \in CacheFiles : f # file /\ file' = f
    /\ UNCHANGED <<cache, reads, session_state, pc, session, submit_button,
                   year_range, selected_countries, df, filtered_df, growth_df,
                   top_growth, view>>

Fresh ==
    /\ cache = <<>>
    /\ reads = 0
    /\ session_state = {}
    /\ pc = "idle"
    /\ session = "s1"
    /\ submit_button = FALSE
    /\ year_range = <<0, 0>>
    /\ selected_countries = {}
    /\ df = NoTable
    /\ filtered_df = NoTable
    /\ growth_df = NoTable
    /\ top_growth = NoTable
    /\ view = "none"

Init == file \in AppFiles /\ Fresh

Next ==
    \/ \E s \in Sessions, submitted \in BOOLEAN : StartRun(s, submitted)
    \/ InitialView
    \/ SetFiltersApplied
    \/ Filter
    \/ Growth
    \/ Tabs

Spec == Init /\ [][Next]_vars

\* The loader over every header.
InitLoad == file \in LoadFiles /\ Fresh
SpecLoad == InitLoad /\ [][Next]_vars

\* The cache while the file changes on disk.
InitCache == file \in CacheFiles /\ Fresh
NextEnv == Next \/ ChangeFile
SpecCache == InitCache /\ [][NextEnv]_vars

\* The growth computation over every table: a run that has filtered with the
\* whole year range and every country, so that line 98 gets the table itself.
InitGrowth ==
    /\ file \in GrowthFiles
    /\ cache = <<load_data_body(file)>>
    /\ reads = 1
    /\ session_state = {"s1"}
    /\ pc = "growth"
    /\ session = "s1"
    /\ submit_button = TRUE
    /\ df = cache[1]
    /\ year_range = <<Min(SliderYears(df)), Max(SliderYears(df))>>
    /\ selected_countries = CountryOptions(df)
    /\ filtered_df = FilterRows(df, year_range, selected_countries)
    /\ growth_df = NoTable
    /\ top_growth = NoTable
    /\ view = "none"
NextGrowth == Growth \/ Tabs
SpecGrowth == InitGrowth /\ [][NextGrowth]_vars

\* The same runs, under their own name for the property over every permutation
\* of the input.
SpecOrder == InitGrowth /\ [][NextGrowth]_vars

----------------------------------------------------------------------------
(* Vocabulary of the properties                                             *)

Running == {"gate", "filter", "growth", "tabs", "done", "stopped", "failed"}

Country(r) == Cell(r, "Country Name")
Year(r) == Cell(r, "Year")
GDP(r) == Cell(r, "GDP")
GrowthOf(r) == Cell(r, "GDP Growth %")

\* The table line 98 passes to calculate_gdp_growth.
GrowthInput == FilterRows(df, year_range, selected_countries)

\* (b - a) / a * 100 as floats.
PctFormula(a, b) == FMul(FDiv(FSub(FromInt(b), FromInt(a)), FromInt(a)), FromInt(100))

\* Each (Country Name, Year) pair occurs at most once.
UniquePairs(d) ==
    \A i, j \in DOMAIN d.rows :
        Country(d.rows[i]) = Country(d.rows[j]) /\ Year(d.rows[i]) = Year(d.rows[j])
            => i = j

\* Non-decreasing by (Country Name, Year).
SortedByKey(rows) ==
    \A i, j \in DOMAIN rows :
        i < j =>
            \/ CountryRank(Country(rows[i])) < CountryRank(Country(rows[j]))
            \/ /\ Country(rows[i]) = Country(rows[j])
               /\ Year(rows[i]) <= Year(rows[j])

\* The positions before i that hold a row of row i's country.
EarlierOfCountry(rows, i) == {j \in 1..(i - 1) : Country(rows[j]) = Country(rows[i])}

RowPermutations(n) == {p \in [1..n -> 1..n] : \A i, j \in 1..n : p[i] = p[j] => i = j}
Permuted(d, p) == [columns |-> d.columns, rows |-> [i \in DOMAIN d.rows |-> d.rows[p[i]]]]

----------------------------------------------------------------------------
(* C1 *)

\* C1: after filtering, filtered_df holds exactly the rows of df with
\* lo <= Year <= hi and Country Name among the selected countries, each once
\* and no other row, under df's columns; its row count is the count of such
\* rows, which is zero when no country is selected.
C1_FilterExact ==
    pc = "growth" =>
        LET wanted == {i \in DOMAIN df.rows :
                          /\ year_range[1] <= Year(df.rows[i])
                          /\ Year(df.rows[i]) <= year_range[2]
                          /\ Country(df.rows[i]) \in selected_countries}
            kept   == filtered_df.rows
        IN  /\ filtered_df.columns = df.columns
            /\ Len(kept) = Cardinality(wanted)
            /\ \A i \in wanted :
                  Cardinality({k \in DOMAIN kept : kept[k] = df.rows[i]}) = 1
            /\ \A k \in DOMAIN kept : \E i \in wanted : kept[k] = df.rows[i]
            /\ selected_countries = {} => Len(kept) = 0

\* A filter that keeps one row and drops another, with countries selected.
C1_Witness ==
    /\ pc = "growth"
    /\ selected_countries # {}
    /\ Len(df.rows) = 2
    /\ Len(filtered_df.rows) = 1

----------------------------------------------------------------------------
(* C2 *)

\* C2: the table calculate_gdp_growth returns holds the input's rows sorted by
\* (Country Name, Year) ascending; the first row of every country has no
\* growth (NaN), and every later row of a country has
\* (GDP - GDP of the previous row of the same country) / that GDP * 100,
\* whatever country the adjacent row belongs to.
C2_GrowthWithinCountry ==
    pc = "tabs" =>
        LET inp == GrowthInput.rows
            out == filtered_df.rows
        IN  /\ Len(out) = Len(inp)
            /\ {out[i].idx : i \in DOMAIN out} = {inp[i].idx : i \in DOMAIN inp}
            /\ \A i \in DOMAIN out : \E k \in DOMAIN inp :
                  /\ inp[k].idx = out[i].idx
                  /\ \A c \in Range(GrowthInput.columns) : Cell(out[i], c) = Cell(inp[k], c)
            /\ SortedByKey(out)
            /\ \A i \in DOMAIN out :
                  LET earlier == EarlierOfCountry(out, i)
                  IN  IF earlier = {}
                      THEN IsNaN(GrowthOf(out[i]))
                      ELSE GrowthOf(out[i]) = PctFormula(GDP(out[Max(earlier)]), GDP(out[i]))

\* Two countries adjacent after sorting: one with a single row, the other with
\* a finite, non-zero growth in its second row.
C2_Witness ==
    /\ pc = "tabs"
    /\ Len(filtered_df.rows) = 3
    /\ \E i \in 1..2 :
          /\ Country(filtered_df.rows[i]) # Country(filtered_df.rows[i + 1])
          /\ GDP(filtered_df.rows[i]) # GDP(filtered_df.rows[i + 1])
          /\ GDP(filtered_df.rows[i]) # 0
    /\ \E i \in 1..3 :
          /\ IsFinite(GrowthOf(filtered_df.rows[i]))
          /\ GrowthOf(filtered_df.rows[i]) # FromInt(0)
    /\ \E i \in 1..3 : \A j \in 1..3 :
          j # i => Country(filtered_df.rows[j]) # Country(filtered_df.rows[i])

----------------------------------------------------------------------------
(* C3 *)

\* C3: when every (Country Name, Year) pair occurs at most once in the input,
\* calculate_gdp_growth returns for every permutation of the input's rows the
\* table it returns for the input: same rows, same order, same growth values.
C3_OrderInvariant ==
    pc = "tabs" =>
        LET inp == GrowthInput
        IN  UniquePairs(inp) =>
                \A p \in RowPermutations(Len(inp.rows)) :
                    calculate_gdp_growth(Permuted(inp, p)).ret = filtered_df

\* An input of three distinct pairs that is not sorted on entry.
C3_Witness ==
    /\ pc = "tabs"
    /\ UniquePairs(GrowthInput)
    /\ Len(GrowthInput.rows) = 3
    /\ ~ SortedByKey(GrowthInput.rows)
    /\ \E i \in 1..3 : IsFinite(GrowthOf(filtered_df.rows[i]))

----------------------------------------------------------------------------
(* C4 *)

\* C4: in every run, from load_data on, df is the cached table, which is the
\* table load_data computed from the file: same columns, same rows, same row
\* order, and no GDP Growth % column; the cache entry never changes once it
\* is populated.  Filtering and both calculate_gdp_growth calls only produce
\* new tables.
C4_BaseUnchanged ==
    /\ [](pc \in Running =>
            /\ cache # <<>>
            /\ df = cache[1]
            /\ df = load_data_body(file)
            /\ ~ HasColumn(df, "GDP Growth %"))
    /\ [][cache # <<>> => cache' = cache]_vars

\* A finished dashboard run over an unsorted base table: the filter dropped a
\* row, and both growth tables were computed.
C4_Witness ==
    /\ pc = "done"
    /\ view = "dashboard"
    /\ Len(df.rows) = 2
    /\ ~ SortedByKey(df.rows)
    /\ Len(filtered_df.rows) = 1
    /\ HasColumn(filtered_df, "GDP Growth %")
    /\ Len(top_growth.rows) = 1

----------------------------------------------------------------------------
(* C5 *)

\* C5: pd.read_csv runs at most once in the process; once the cache is
\* populated it never changes, and every later load_data call returns the
\* cached table and reads nothing, whatever the file holds by then.
C5_LoadedOnce ==
    /\ [](reads <= 1)
    /\ [](cache = <<>> <=> reads = 0)
    /\ [][cache # <<>> => cache' = cache /\ reads' = reads]_vars
    /\ [][cache # <<>> /\ pc' = "gate" /\ pc # "gate" => df' = cache[1]]_vars

\* A later run, after the file changed on disk, got the table first computed.
C5_Witness ==
    /\ pc = "gate"
    /\ reads = 1
    /\ session_state # {}
    /\ df = cache[1]
    /\ df # load_data_body(file)

----------------------------------------------------------------------------
(* C6 *)

\* C6: no code is listed under two regions, and every listed code maps to the
\* region listing it, one of the six.  When the file has a Country Code
\* column, the loaded table has a Region column holding for every row the
\* region that lists the row's code, and null for a code no region lists;
\* when the file has no Country Code column, the loaded table has no Region
\* column.
C6_Region ==
    /\ \A i, j \in DOMAIN region_map :
          Range(region_map[i][2]) \cap Range(region_map[j][2]) # {} => i = j
    /\ \A i \in DOMAIN region_map :
          /\ region_map[i][1] \in {"Asia", "Europe", "North America",
                                   "South America", "Africa", "Oceania"}
          /\ \A code \in Range(region_map[i][2]) : MapRegion(code) = region_map[i][1]
    /\ pc \in Running =>
          IF "Country Code" \in Range(file.columns)
          THEN /\ HasColumn(df, "Region")
               /\ Len(df.rows) = Len(file.records)
               /\ \A k \in DOMAIN df.rows :
                     LET code    == file.records[k]["Country Code"]
                         listing == {i \in DOMAIN region_map :
                                        code \in Range(region_map[i][2])}
                     IN  /\ Cell(df.rows[k], "Country Code") = code
                         /\ \A i \in listing : Cell(df.rows[k], "Region") = region_map[i][1]
                         /\ listing = {} => Cell(df.rows[k], "Region") = NullRegion
          ELSE ~ HasColumn(df, "Region")

\* A loaded table with a mapped code in one row and an unmapped one in another.
C6_Witness ==
    /\ pc = "gate"
    /\ HasColumn(df, "Region")
    /\ \E k \in DOMAIN df.rows : Cell(df.rows[k], "Region") = "Oceania"
    /\ \E k \in DOMAIN df.rows :
          Cell(df.rows[k], "Country Code") = "CHN" /\ Cell(df.rows[k], "Region") = NullRegion

----------------------------------------------------------------------------
(* C7 *)

\* The column names of the loaded table that load_data did not add.
LoadedNames(d) == SelectSeq(d.columns, LAMBDA c : c # "Region")

\* C7: a file with a Value column and no GDP column loads into a table with a
\* GDP column holding the file's Value cells row for row, and without a Value
\* column; a file with no column named exactly Value keeps its column names.
C7_ValueRenamed ==
    pc \in Running =>
        LET names == Range(file.columns)
        IN  /\ "Value" \in names /\ "GDP" \notin names =>
                /\ HasColumn(df, "GDP")
                /\ ~ HasColumn(df, "Value")
                /\ Len(df.rows) = Len(file.records)
                /\ \A k \in DOMAIN df.rows : GDP(df.rows[k]) = file.records[k]["Value"]
            /\ "Value" \notin names => LoadedNames(df) = file.columns

\* A Value file of two rows with different values, loaded.
C7_Witness ==
    /\ pc = "gate"
    /\ "Value" \in Range(file.columns)
    /\ Len(df.rows) = 2
    /\ GDP(df.rows[1]) = 100
    /\ GDP(df.rows[2]) = 110

----------------------------------------------------------------------------
(* C8 *)

\* C8: every growth value calculate_gdp_growth stores is the percentage change
\* against the row of the same country for the year before (Year - 1).
\* Stated for inputs without duplicate (Country Name, Year) pairs.
C8_PrecedingYear ==
    pc = "tabs" /\ UniquePairs(GrowthInput) =>
        \A i \in DOMAIN filtered_df.rows :
            LET out == filtered_df.rows
            IN  ~ IsNaN(GrowthOf(out[i])) =>
                    \E j \in DOMAIN out :
                        /\ Country(out[j]) = Country(out[i])
                        /\ Year(out[j]) = Year(out[i]) - 1
                        /\ GrowthOf(out[i]) = PctFormula(GDP(out[j]), GDP(out[i]))

----------------------------------------------------------------------------
(* C9 *)

\* Row i of rows follows a row of its country whose GDP is zero.
AfterZero(rows, i) ==
    /\ EarlierOfCountry(rows, i) # {}
    /\ GDP(rows[Max(EarlierOfCountry(rows, i))]) = 0

----------------------------------------------------------------------------
(* C10 *)

\* C10: a run leaves the gate of line 63 for the initial view exactly when its
\* session has no filters_applied and the button was not pressed; that run
\* renders the snapshot, stops before filtering and leaves the flag unset;
\* every other run sets the flag before it filters.  No step clears a flag, so
\* once a session has it, none of its runs shows the initial view.
C10_FiltersApplied ==
    /\ [][pc = "gate" /\ pc' # "gate" =>
            IF session \notin session_state /\ ~ submit_button
            THEN /\ pc' = "stopped"
                 /\ view' = "snapshot"
                 /\ session_state' = session_state
                 /\ filtered_df' = NoTable
            ELSE /\ pc' = "filter"
                 /\ session \in session_state'
                 /\ filtered_df' = NoTable]_vars
    /\ [](pc \in {"filter", "growth", "tabs", "done"} =>
            session \in session_state /\ view # "snapshot")
    /\ [](pc = "stopped" =>
            /\ session \notin session_state
            /\ view = "snapshot"
            /\ filtered_df = NoTable
            /\ top_growth = NoTable)
    /\ [][session_state \subseteq session_state']_vars

\* A run without a button press, in a session that applied filters before,
\* went through the pipeline, while the other session has no flag yet.
C10_Witness ==
    /\ pc = "done"
    /\ ~ submit_button
    /\ view = "dashboard"
    /\ session_state = {session}

====
